---- MODULE Spec2Model ----
(***************************************************************************)
(* A model of the blacklisted-mock-api-server Express application          *)
(* (src/server.js; src/unnamed/part_000 is the same application without    *)
(* the rate limiters and the documentation routes).                        *)
(*                                                                         *)
(* A request is (client address, method, path, req.query.name, body).      *)
(* One action, Request, runs the whole middleware chain for one request in *)
(* registration order: express.json(), generalLimiter, the /api-docs       *)
(* mount, GET /api-docs.json, GET /health, GET /blacklisted (behind        *)
(* blacklistLimiter), the '*' 404 handler and the error handler.           *)
(*                                                                         *)
(* Strings are sequences of one-character strings, so that toLowerCase()   *)
(* is computed character by character.  The rate limiters' windows are     *)
(* not measured against the clock: a window may elapse at any moment       *)
(* (WindowElapses), which covers every timing the store can produce.       *)
(* Requests carry no conditional headers (no If-None-Match).               *)
(***************************************************************************)
EXTENDS Naturals, Sequences, FiniteSets

VARIABLES
    blacklistedNames,   \* the array of server.js:92, as the process holds it
    hits,               \* hits[policy][key]: each limiter's store, per client key
    uptime,             \* process.uptime(), in whole ticks
    running,            \* the process is alive and listening
    last,               \* the request handled last and the response it got
    healthMax,          \* the largest uptime any /health response before `last` reported
    faulted             \* some request so far raised a fault

vars == <<blacklistedNames, hits, uptime, running, last, healthMax, faulted>>

----------------------------------------------------------------------------
(* Bounds of the model *)

\* Spec: counted requests the client makes within one window
MaxRequests == 2
\* SpecLoad, SpecHealth: requests the heavy client makes beyond the general maximum
MaxOver == 1
\* SpecLoad: counted requests the second client makes within one general window
MaxLight == 1
\* ticks of the process clock
MaxUptime == 2

(* Program constants *)

GeneralMax == 100
BlacklistMax == 20

----------------------------------------------------------------------------
(* Strings *)

UpperLetters ==
    <<"A","B","C","D","E","F","G","H","I","J","K","L","M",
      "N","O","P","Q","R","S","T","U","V","W","X","Y","Z">>

LowerLetters ==
    <<"a","b","c","d","e","f","g","h","i","j","k","l","m",
      "n","o","p","q","r","s","t","u","v","w","x","y","z">>

Alphabet ==
    {UpperLetters[i] : i \in 1..26} \cup {LowerLetters[i] : i \in 1..26} \cup {" "}

\* String.prototype.toLowerCase on one character of the alphabet
LowerChar ==
    [ch \in Alphabet |->
        IF \E i \in 1..26 : UpperLetters[i] = ch
        THEN LowerLetters[CHOOSE i \in 1..26 : UpperLetters[i] = ch]
        ELSE ch]

\* String.prototype.toLowerCase
toLowerCase(s) == [i \in 1..Len(s) |-> LowerChar[s[i]]]

----------------------------------------------------------------------------
(* The configured blacklist *)

NameJohnSmith == <<"J","o","h","n"," ","S","m","i","t","h">>
NameJaneDoe == <<"J","a","n","e"," ","D","o","e">>
NameMariaMartinez == <<"M","a","r","i","a"," ","M","a","r","t","i","n","e","z">>

ConfiguredNames ==
    << NameJohnSmith,
       NameJaneDoe,
       <<"M","i","k","e"," ","J","o","h","n","s","o","n">>,
       <<"S","a","r","a","h"," ","W","i","l","s","o","n">>,
       <<"R","o","b","e","r","t"," ","B","r","o","w","n">>,
       <<"E","m","i","l","y"," ","D","a","v","i","s">>,
       <<"D","a","v","i","d"," ","M","i","l","l","e","r">>,
       <<"L","i","s","a"," ","G","a","r","c","i","a">>,
       <<"J","a","m","e","s"," ","R","o","d","r","i","g","u","e","z">>,
       NameMariaMartinez >>

----------------------------------------------------------------------------
(* Requests *)

Clients == {"c1", "c2"}

Methods == {"GET", "HEAD", "POST"}

Paths == {"/health", "/blacklisted", "/api-docs", "/api-docs/",
          "/api-docs.json", "/nonexistent", "/"}

\* req.query.name as the query parser delivers it
NoName == [kind |-> "absent", val |-> <<>>]             \* /blacklisted
EmptyName == [kind |-> "string", val |-> <<>>]          \* ?name=
StrName(s) == [kind |-> "string", val |-> s]            \* ?name=John%20Smith
ListName == [kind |-> "array", val |-> <<"a","b">>]     \* ?name=a&name=b
ObjectName == [kind |-> "object", val |-> <<"b">>]      \* ?name[a]=b

LowerJohnSmith == <<"j","o","h","n"," ","s","m","i","t","h">>
UpperJohnSmith == <<"J","O","H","N"," ","S","M","I","T","H">>
MixedJaneDoe == <<"j","A","N","E"," ","d","O","E">>
UpperMariaMartinez == <<"M","A","R","I","A"," ","M","A","R","T","I","N","E","Z">>
RandomPerson == <<"R","a","n","d","o","m"," ","P","e","r","s","o","n">>
OnlyJohn == <<"J","o","h","n">>
TrailingJohnSmith == <<"J","o","h","n"," ","S","m","i","t","h"," ">>
LeadingJohnSmith == <<" ","J","o","h","n"," ","S","m","i","t","h">>
JohnSmyth == <<"J","o","h","n"," ","S","m","y","t","h">>
JaneDoeNoSpace == <<"J","a","n","e","D","o","e">>

\* the non-empty strings submitted as ?name=
NameStrings ==
    { NameJohnSmith, LowerJohnSmith, UpperJohnSmith, NameJaneDoe, MixedJaneDoe,
      NameMariaMartinez, UpperMariaMartinez, RandomPerson, OnlyJohn,
      TrailingJohnSmith, LeadingJohnSmith, JohnSmyth, JaneDoeNoSpace }

NameInputs ==
    {NoName, EmptyName, ListName, ObjectName} \cup {StrName(s) : s \in NameStrings}

Req(m, p, n, b) == [method |-> m, path |-> p, name |-> n, body |-> b]

NoRequest == Req("-", "-", NoName, "none")

\* every request kind of the model
Requests ==
    {Req(m, p, NoName, "none") : m \in Methods, p \in Paths}
    \cup {Req("GET", "/blacklisted", n, "none") : n \in NameInputs}
    \cup {Req("POST", p, NoName, b) :
            p \in {"/health", "/blacklisted", "/nonexistent"},
            b \in {"valid", "malformed"}}

\* the request kinds of the load specifications
GetHealth == Req("GET", "/health", NoName, "none")
GetBlacklisted == Req("GET", "/blacklisted", NoName, "none")
GetNonexistent == Req("GET", "/nonexistent", NoName, "none")
GetJohnSmith == Req("GET", "/blacklisted", StrName(LowerJohnSmith), "none")

----------------------------------------------------------------------------
(* Responses *)

NoErr == [message |-> "", stack |-> ""]

\* a response with nothing set; each handler fills in what it sends
EmptyResponse ==
    [ status |-> 0, kind |-> "none", handler |-> "none", sends |-> 0,
      blacklistedNames |-> <<>>, count |-> 0,
      name |-> NoName, isBlacklisted |-> FALSE,
      error |-> "", message |-> "", stack |-> "", retryAfter |-> "",
      availableEndpoints |-> <<>>,
      healthStatus |-> "", uptime |-> 0, service |-> "" ]

\* what a middleware or route handler did: it sent a response, or it threw
Sent(resp, names) == [threw |-> FALSE, err |-> NoErr, resp |-> resp, names |-> names]
Threw(err, names) == [threw |-> TRUE, err |-> err, resp |-> EmptyResponse, names |-> names]

----------------------------------------------------------------------------
(* express.json() *)

\* the body parser passes a request without a body or with a JSON body on,
\* and raises a SyntaxError for a body that is not JSON
JsonBodyParser(r) ==
    IF r.body = "malformed"
    THEN [threw |-> TRUE,
          err |-> [message |-> "Unexpected token in JSON",
                   stack |-> "SyntaxError: Unexpected token in JSON at parse"]]
    ELSE [threw |-> FALSE, err |-> NoErr]

----------------------------------------------------------------------------
(* The rate limiters *)

GeneralMessage ==
    [error |-> "Too many requests from this IP", retryAfter |-> "15 minutes"]

BlacklistMessage ==
    [error |-> "Too many blacklist requests from this IP", retryAfter |-> "1 minute"]

\* a mutant of KeyOf: one counter for all clients
KeyShared(c) == "c1"

\* the key a limiter counts under: the client address (req.ip)
KeyOf(c) == c

\* a mutant of OverLimit: the request that reaches the maximum is rejected too
OverLimitAtMax(totalHits, max) == totalHits >= max

\* a limiter rejects the request when the hits counted, this one included,
\* exceed max
OverLimit(totalHits, max) == totalHits > max

\* the store's increment for one key
Increment(store, key) == [store EXCEPT ![key] = @ + 1]

\* the 429 a limiter sends: res.status(429).send(message)
RateLimitResponse(policy, message) ==
    [EmptyResponse EXCEPT !.status = 429, !.kind = "ratelimit", !.sends = 1,
                          !.handler = policy,
                          !.error = message.error, !.retryAfter = message.retryAfter]

----------------------------------------------------------------------------
(* Route handlers *)

\* app.use('/api-docs', swaggerUi.serve, swaggerUi.setup(swaggerSpec)): the
\* static middleware redirects a GET or HEAD of the mount path without its
\* trailing slash; every other request gets the viewer's page
DocsMount(r, names) ==
    IF r.path = "/api-docs" /\ r.method \in {"GET", "HEAD"}
    THEN Sent([EmptyResponse EXCEPT !.status = 301, !.kind = "redirect", !.sends = 1,
                                    !.handler = "docs"], names)
    ELSE Sent([EmptyResponse EXCEPT !.status = 200, !.kind = "docs-html", !.sends = 1,
                                    !.handler = "docs"], names)

\* app.get('/api-docs.json'): res.send(swaggerSpec)
ApiDocsJson(names) ==
    Sent([EmptyResponse EXCEPT !.status = 200, !.kind = "docs-json", !.sends = 1,
                               !.handler = "docs"], names)

\* a mutant of HealthHandler: the uptime reported runs backwards
HealthHandlerBackwards(up, names) ==
    Sent([EmptyResponse EXCEPT !.status = 200, !.kind = "health", !.sends = 1,
                               !.handler = "health",
                               !.healthStatus = "healthy",
                               !.uptime = MaxUptime + 1 - up,
                               !.service = "blacklisted-mock-api-server"], names)

\* app.get('/health')
HealthHandler(up, names) ==
    Sent([EmptyResponse EXCEPT !.status = 200, !.kind = "health", !.sends = 1,
                               !.handler = "health",
                               !.healthStatus = "healthy",
                               !.uptime = up,
                               !.service = "blacklisted-mock-api-server"], names)

\* JavaScript's !name is false for a non-empty string, an array and an object
Truthy(name) ==
    \/ name.kind \in {"array", "object"}
    \/ name.kind = "string" /\ Len(name.val) > 0

\* a mutant of IsBlacklisted: the comparison keeps the case
IsBlacklistedCaseSensitive(names, s) ==
    \E i \in 1..Len(names) : names[i] = s

\* blacklistedNames.some(n => n.toLowerCase() === name.toLowerCase())
IsBlacklisted(names, s) ==
    \E i \in 1..Len(names) : toLowerCase(names[i]) = toLowerCase(s)

\* a mutant of ListAll: the handler sorts the array it returns in place
ListAllSorting(names) ==
    LET sorted == <<names[2]>> \o <<names[1]>> \o SubSeq(names, 3, Len(names))
    IN  Sent([EmptyResponse EXCEPT !.status = 200, !.kind = "list", !.sends = 1,
                                   !.handler = "blacklist",
                                   !.blacklistedNames = sorted,
                                   !.count = Len(sorted)], sorted)

\* a mutant of ListAll: the handler takes the first entry off the array
ListAllConsuming(names) ==
    Sent([EmptyResponse EXCEPT !.status = 200, !.kind = "list", !.sends = 1,
                               !.handler = "blacklist",
                               !.blacklistedNames = names,
                               !.count = Len(names)],
         IF Len(names) > 1 THEN Tail(names) ELSE names)

\* the branch of app.get('/blacklisted') for no name
ListAll(names) ==
    Sent([EmptyResponse EXCEPT !.status = 200, !.kind = "list", !.sends = 1,
                               !.handler = "blacklist",
                               !.blacklistedNames = names,
                               !.count = Len(names)], names)

\* the branch of app.get('/blacklisted') for a name: only a string has
\* toLowerCase, so the callback of some() throws for an array or an object
CheckName(names, name) ==
    IF name.kind # "string"
    THEN Threw([message |-> "name.toLowerCase is not a function",
                stack |-> "TypeError: name.toLowerCase is not a function at server.js:230"],
               names)
    ELSE Sent([EmptyResponse EXCEPT !.status = 200, !.kind = "check", !.sends = 1,
                                    !.handler = "blacklist",
                                    !.name = name,
                                    !.isBlacklisted = IsBlacklisted(names, name.val)],
              names)

\* app.get('/blacklisted'), after blacklistLimiter
BlacklistHandler(r, names) ==
    IF ~Truthy(r.name) THEN ListAll(names) ELSE CheckName(names, r.name)

AvailableEndpoints ==
    <<"GET /health", "GET /blacklisted", "GET /blacklisted?name=<name>">>

\* a mutant of NotFoundHandler: the list of endpoints is left out
NotFoundHandlerBare(names) ==
    Sent([EmptyResponse EXCEPT !.status = 404, !.kind = "notfound", !.sends = 1,
                               !.handler = "notfound",
                               !.error = "Endpoint not found"], names)

\* app.use('*'): the 404 handler
NotFoundHandler(names) ==
    Sent([EmptyResponse EXCEPT !.status = 404, !.kind = "notfound", !.sends = 1,
                               !.handler = "notfound",
                               !.error = "Endpoint not found",
                               !.availableEndpoints = AvailableEndpoints], names)

\* a mutant of ErrorHandler: the stack goes to the client
ErrorHandlerLeaking(err) ==
    [ handled |-> TRUE, logged |-> err.stack,
      resp |-> [EmptyResponse EXCEPT !.status = 500, !.kind = "error", !.sends = 1,
                                     !.handler = "error",
                                     !.error = "Internal server error",
                                     !.message = err.message,
                                     !.stack = err.stack] ]

\* a mutant of ErrorHandler: the error is thrown again and nothing is sent
ErrorHandlerRethrowing(err) ==
    [ handled |-> FALSE, logged |-> err.stack, resp |-> EmptyResponse ]

\* app.use((err, req, res, next) => ...): the error handler
ErrorHandler(err) ==
    [ handled |-> TRUE, logged |-> err.stack,
      resp |-> [EmptyResponse EXCEPT !.status = 500, !.kind = "error", !.sends = 1,
                                     !.handler = "error",
                                     !.error = "Internal server error",
                                     !.message = err.message] ]

----------------------------------------------------------------------------
(* The middleware chain *)

Policies == {"general", "blacklist"}

GetOrHead(r) == r.method \in {"GET", "HEAD"}

\* what the chain did with one request: the response, the limiters' stores
\* and the array afterwards, and the fault raised on the way, if any
Outcome(result, h) ==
    IF result.threw
    THEN LET eh == ErrorHandler(result.err)
         IN  [ resp |-> eh.resp, hits |-> h, names |-> result.names,
               threw |-> TRUE, fault |-> result.err,
               logged |-> eh.logged, fatal |-> ~eh.handled ]
    ELSE [ resp |-> result.resp, hits |-> h, names |-> result.names,
           threw |-> FALSE, fault |-> NoErr, logged |-> "", fatal |-> FALSE ]

\* app.get('/blacklisted', blacklistLimiter, handler)
BlacklistRoute(c, r, h, names) ==
    LET store == Increment(h.blacklist, KeyOf(c))
        h2    == [h EXCEPT !.blacklist = store]
    IN  IF OverLimit(store[KeyOf(c)], BlacklistMax)
        THEN Outcome(Sent(RateLimitResponse("blacklistLimiter", BlacklistMessage), names), h2)
        ELSE Outcome(BlacklistHandler(r, names), h2)

\* the routes in registration order; app.get() also answers HEAD
Routes(c, r, h, names, up) ==
    IF r.path \in {"/api-docs", "/api-docs/"}
    THEN Outcome(DocsMount(r, names), h)
    ELSE IF GetOrHead(r) /\ r.path = "/api-docs.json"
    THEN Outcome(ApiDocsJson(names), h)
    ELSE IF GetOrHead(r) /\ r.path = "/health"
    THEN Outcome(HealthHandler(up, names), h)
    ELSE IF GetOrHead(r) /\ r.path = "/blacklisted"
    THEN BlacklistRoute(c, r, h, names)
    ELSE Outcome(NotFoundHandler(names), h)

\* app.use(express.json()); app.use(generalLimiter); the routes
Chain(c, r, h, names, up) ==
    LET parsed == JsonBodyParser(r)
    IN  IF parsed.threw
        THEN Outcome(Threw(parsed.err, names), h)
        ELSE LET store == Increment(h.general, KeyOf(c))
                 h1    == [h EXCEPT !.general = store]
             IN  IF OverLimit(store[KeyOf(c)], GeneralMax)
                 THEN Outcome(Sent(RateLimitResponse("generalLimiter", GeneralMessage),
                                   names), h1)
                 ELSE Routes(c, r, h1, names, up)

----------------------------------------------------------------------------
(* The state machine *)

NoHits == [p \in Policies |-> [c \in Clients |-> 0]]

NoLast ==
    [ client |-> "-", req |-> NoRequest, resp |-> EmptyResponse,
      threw |-> FALSE, fault |-> NoErr, logged |-> "", afterFault |-> FALSE ]

Init ==
    /\ blacklistedNames = ConfiguredNames
    /\ hits = NoHits
    /\ uptime = 0
    /\ running = TRUE
    /\ last = NoLast
    /\ healthMax = 0
    /\ faulted = FALSE

Larger(a, b) == IF a >= b THEN a ELSE b

\* the server handles request r of client c
Request(c, r) ==
    /\ running
    /\ LET o == Chain(c, r, hits, blacklistedNames, uptime)
       IN  /\ blacklistedNames' = o.names
           /\ hits' = o.hits
           /\ running' = ~o.fatal
           /\ last' = [ client |-> c, req |-> r, resp |-> o.resp,
                        threw |-> o.threw, fault |-> o.fault, logged |-> o.logged,
                        afterFault |-> faulted ]
           /\ faulted' = (faulted \/ o.threw)
    /\ healthMax' = IF last.resp.kind = "health"
                    THEN Larger(healthMax, last.resp.uptime)
                    ELSE healthMax
    /\ UNCHANGED uptime

\* a limiter's window of one client ends: the store forgets the client's hits
WindowElapses(p, c) ==
    /\ hits[p][c] > 0
    /\ hits' = [hits EXCEPT ![p][c] = 0]
    /\ UNCHANGED <<blacklistedNames, uptime, running, last, healthMax, faulted>>

\* the process clock advances
Tick ==
    /\ uptime < MaxUptime
    /\ uptime' = uptime + 1
    /\ UNCHANGED <<blacklistedNames, hits, running, last, healthMax, faulted>>

\* the counters of client c stay below the caps for request r
Below(c, r, generalCap, blacklistCap) ==
    /\ hits.general[KeyOf(c)] < generalCap
    /\ r.path = "/blacklisted" => hits.blacklist[KeyOf(c)] < blacklistCap

\* every request kind, from one client that stays below the limits, while
\* the clock runs
Next ==
    \/ \E r \in Requests :
            Below("c1", r, MaxRequests, MaxRequests) /\ Request("c1", r)
    \/ \E p \in Policies : WindowElapses(p, "c1")
    \/ Tick

Spec == Init /\ [][Next]_vars

\* the request kinds of the load specification
LoadRequests == {GetHealth, GetBlacklisted, GetJohnSmith}

\* one client that runs into both limits, and a second client beside it
NextLoad ==
    \/ \E r \in LoadRequests :
            /\ Below("c1", r, GeneralMax + MaxOver, BlacklistMax + MaxOver)
            /\ Request("c1", r)
    \/ \E r \in LoadRequests :
            Below("c2", r, MaxLight, MaxLight) /\ Request("c2", r)
    \/ \E p \in Policies, c \in Clients : WindowElapses(p, c)

SpecLoad == Init /\ [][NextLoad]_vars

\* the request kinds of the health specification
HealthRequests == {GetHealth, GetNonexistent}

\* one client that polls /health while the clock runs
NextHealth ==
    \/ \E r \in HealthRequests :
            /\ Below("c1", r, GeneralMax + MaxOver, BlacklistMax + MaxOver)
            /\ Request("c1", r)
    \/ WindowElapses("general", "c1")
    \/ Tick

SpecHealth == Init /\ [][NextHealth]_vars

----------------------------------------------------------------------------
(* Properties *)

Served == last.client # "-"

\* two characters that are one letter in its two cases
CasePair(x, y) ==
    \E k \in 1..26 : x # y /\ {x, y} = {UpperLetters[k], LowerLetters[k]}

\* two strings of one length that differ at most in the case of their letters
SameIgnoringCase(a, b) ==
    /\ Len(a) = Len(b)
    /\ \A i \in 1..Len(a) : a[i] = b[i] \/ CasePair(a[i], b[i])

\* the response a request gets from a server that has served nothing yet
Alone(r) == Chain("c1", r, NoHits, ConfiguredNames, 0).resp

\* a response without its clock-derived field
ApartFromClock(resp) == [resp EXCEPT !.uptime = 0]

\* C1: a GET /blacklisted?name=<non-empty string> that is not rate-limited is
\* answered 200 with exactly { name, isBlacklisted }: name is the string as
\* submitted, and isBlacklisted is true exactly when one of the 10 configured
\* entries is the submitted string up to the case of its letters (the whole
\* string, not a part of it).
C1_NameCheck ==
    ( /\ last.req.method = "GET"
      /\ last.req.path = "/blacklisted"
      /\ last.req.name.kind = "string"
      /\ Len(last.req.name.val) > 0
      /\ last.resp.status # 429 )
    => last.resp =
         [EmptyResponse EXCEPT
            !.status = 200, !.kind = "check", !.sends = 1, !.handler = "blacklist",
            !.name = last.req.name,
            !.isBlacklisted =
                (\E i \in 1..10 :
                    SameIgnoringCase(ConfiguredNames[i], last.req.name.val))]

\* C1's case: an entry submitted in upper case is echoed in upper case and
\* reported blacklisted
C1_Witness ==
    /\ last.req.name = StrName(UpperMariaMartinez)
    /\ last.resp.status = 200
    /\ last.resp.name.val = UpperMariaMartinez
    /\ last.resp.isBlacklisted

\* C2: the blacklist is the same ordered sequence of 10 names in every
\* reachable state, and a GET /blacklisted with name absent or empty that is
\* not rate-limited returns it with count 10.
C2_BlacklistConstant ==
    /\ blacklistedNames = ConfiguredNames
    /\ Len(blacklistedNames) = 10
    /\ ( /\ last.req.method = "GET"
         /\ last.req.path = "/blacklisted"
         /\ last.req.name \in {NoName, EmptyName}
         /\ last.resp.status # 429 )
       => last.resp =
            [EmptyResponse EXCEPT
               !.status = 200, !.kind = "list", !.sends = 1, !.handler = "blacklist",
               !.blacklistedNames = ConfiguredNames,
               !.count = 10]

\* C2's case: the list is returned for an empty name after earlier requests,
\* one of which raised a fault
C2_Witness ==
    /\ last.req = Req("GET", "/blacklisted", EmptyName, "none")
    /\ last.resp.count = 10
    /\ last.afterFault
    /\ hits.blacklist["c1"] = MaxRequests

\* C3: a request a limiter counts after the client's hits in the window have
\* reached the policy's maximum is answered 429 with the policy's
\* { error, retryAfter } and goes no further down the chain; a counted request
\* below the maximum is not rejected by that policy; a window that elapses
\* leaves the client with no hits.
C3_RateLimit ==
    [][ \A c \in Clients :
          /\ hits'.general[c] = hits.general[c] + 1 =>
                /\ last'.client = c
                /\ hits.general[c] >= GeneralMax =>
                      /\ last'.resp =
                           [EmptyResponse EXCEPT
                              !.status = 429, !.kind = "ratelimit", !.sends = 1,
                              !.handler = "generalLimiter",
                              !.error = "Too many requests from this IP",
                              !.retryAfter = "15 minutes"]
                      /\ hits'.blacklist = hits.blacklist
                /\ hits.general[c] < GeneralMax =>
                      last'.resp.handler # "generalLimiter"
          /\ hits'.blacklist[c] = hits.blacklist[c] + 1 =>
                /\ last'.client = c
                /\ hits.blacklist[c] >= BlacklistMax =>
                      last'.resp =
                        [EmptyResponse EXCEPT
                           !.status = 429, !.kind = "ratelimit", !.sends = 1,
                           !.handler = "blacklistLimiter",
                           !.error = "Too many blacklist requests from this IP",
                           !.retryAfter = "1 minute"]
                /\ hits.blacklist[c] < BlacklistMax =>
                      /\ last'.resp.status = 200
                      /\ last'.resp.handler = "blacklist"
          /\ \A p \in Policies : hits'[p][c] < hits[p][c] => hits'[p][c] = 0
      ]_vars

\* C3's case: the client's 21st /blacklisted request of a window got the
\* blacklist policy's 429
C3_Witness ==
    /\ last.client = "c1"
    /\ last.req = GetBlacklisted
    /\ last.resp.status = 429
    /\ last.resp.error = "Too many blacklist requests from this IP"
    /\ hits.blacklist["c1"] = BlacklistMax + 1
    /\ hits.general["c1"] <= GeneralMax

C5_AsStated ==
    Served =>
        IF last.req.method = "GET" /\ last.req.path = "/health"
        THEN last.resp.handler = "health"
        ELSE IF last.req.method = "GET" /\ last.req.path = "/blacklisted"
        THEN last.resp.handler \in {"blacklist", "error"}
        ELSE last.resp =
               [EmptyResponse EXCEPT
                  !.status = 404, !.kind = "notfound", !.sends = 1,
                  !.handler = "notfound",
                  !.error = "Endpoint not found",
                  !.availableEndpoints =
                      <<"GET /health", "GET /blacklisted",
                        "GET /blacklisted?name=<name>">>]

\* C5, amended: a request that the body parser and the general limiter let
\* through goes to the documentation routes (any method on the /api-docs
\* mount, GET or HEAD /api-docs.json), to the health handler (GET or HEAD
\* /health) or to the blacklist route (GET or HEAD /blacklisted), and every
\* other method and path is answered with the 404 body.
C5_Routing ==
    (Served /\ last.req.body # "malformed" /\ last.resp.handler # "generalLimiter") =>
        IF last.req.path \in {"/api-docs", "/api-docs/"}
        THEN last.resp.handler = "docs"
        ELSE IF last.req.method \in {"GET", "HEAD"} /\ last.req.path = "/api-docs.json"
        THEN last.resp.handler = "docs" /\ last.resp.status = 200
        ELSE IF last.req.method \in {"GET", "HEAD"} /\ last.req.path = "/health"
        THEN last.resp.handler = "health"
        ELSE IF last.req.method \in {"GET", "HEAD"} /\ last.req.path = "/blacklisted"
        THEN last.resp.handler \in {"blacklist", "blacklistLimiter", "error"}
        ELSE last.resp =
               [EmptyResponse EXCEPT
                  !.status = 404, !.kind = "notfound", !.sends = 1,
                  !.handler = "notfound",
                  !.error = "Endpoint not found",
                  !.availableEndpoints =
                      <<"GET /health", "GET /blacklisted",
                        "GET /blacklisted?name=<name>">>]

\* C5's case: a POST to /health is answered with the 404 body
C5_Witness ==
    /\ last.req = Req("POST", "/health", NoName, "valid")
    /\ last.resp.status = 404
    /\ Len(last.resp.availableEndpoints) = 3

C7_Permissive ==
    ( /\ last.req.method = "GET"
      /\ last.req.path = "/blacklisted"
      /\ last.resp.status # 429 )
    => /\ last.resp.status = 200
       /\ last.resp.kind \in {"list", "check"}

\* C8: a fault raised while a request is processed becomes one response,
\* 500 with { error: 'Internal server error', message } and no stack; the
\* process keeps running with the blacklist as configured, and a request
\* served after a fault gets the response it gets from a server on which no
\* fault occurred (the clock and the limiters' counters aside).
C8_FaultContained ==
    /\ running
    /\ last.threw =>
          /\ last.fault.message # ""
          /\ last.logged = last.fault.stack
          /\ last.resp =
               [EmptyResponse EXCEPT
                  !.status = 500, !.kind = "error", !.sends = 1, !.handler = "error",
                  !.error = "Internal server error",
                  !.message = last.fault.message]
    /\ faulted => blacklistedNames = ConfiguredNames
    /\ (last.afterFault /\ last.resp.status # 429) =>
          ApartFromClock(last.resp) = ApartFromClock(Alone(last.req))

\* C8's case: after a request failed in the handler, /health is served
C8_Witness ==
    /\ last.afterFault
    /\ ~last.threw
    /\ last.req = GetHealth
    /\ last.resp.status = 200
    /\ running

\* C9 as stated: the response of every request, its clock-derived fields
\* aside, is the response the request gets when it is served alone.
C9_AsStated ==
    Served => ApartFromClock(last.resp) = ApartFromClock(Alone(last.req))

\* C9, amended: the response of every request that no rate limiter rejects,
\* its clock-derived fields aside, is the response the request gets when it
\* is served alone, and the blacklist it is computed from never changes.
C9_StatelessUnlessLimited ==
    /\ blacklistedNames = ConfiguredNames
    /\ (Served /\ last.resp.status # 429) =>
          ApartFromClock(last.resp) = ApartFromClock(Alone(last.req))

\* C9's case: the second client is served as if alone while the first client
\* is over both maxima
C9_Witness ==
    /\ last.client = "c2"
    /\ last.req = GetBlacklisted
    /\ last.resp.status = 200
    /\ hits.general["c1"] > GeneralMax
    /\ hits.blacklist["c1"] > BlacklistMax

\* C10 as stated: every GET /health is answered 200 with status 'healthy',
\* the service name and an uptime not below any reported before.
C10_AsStated ==
    (last.req.method = "GET" /\ last.req.path = "/health") =>
        /\ last.resp.status = 200
        /\ last.resp.healthStatus = "healthy"
        /\ last.resp.service = "blacklisted-mock-api-server"
        /\ last.resp.uptime >= healthMax

\* C10, amended: every GET /health that the general limiter does not reject
\* is answered 200 with status 'healthy', the service name and an uptime not
\* below any reported before; the handler leaves the blacklist and the
\* blacklist limiter's counters alone.
C10_Health ==
    /\ (last.req.method = "GET" /\ last.req.path = "/health"
            /\ last.resp.handler # "generalLimiter") =>
          /\ last.resp =
               [EmptyResponse EXCEPT
                  !.status = 200, !.kind = "health", !.sends = 1, !.handler = "health",
                  !.healthStatus = "healthy",
                  !.service = "blacklisted-mock-api-server",
                  !.uptime = last.resp.uptime]
          /\ last.resp.uptime >= healthMax
          /\ last.resp.uptime <= uptime
    /\ blacklistedNames = ConfiguredNames
    /\ hits.blacklist = NoHits.blacklist

\* C10's case: a /health response reports a larger uptime than an earlier one
C10_Witness ==
    /\ last.req = GetHealth
    /\ last.resp.status = 200
    /\ healthMax > 0
    /\ last.resp.uptime > healthMax

====
